---- MODULE Spec2Model ----
(***************************************************************************)
(* A model of the LLM service core: the service facade                     *)
(* (services/llm.py), the dispatchers (repositories/base.py,               *)
(* repositories/base_new.py, repositories/gemini.py) with the provider     *)
(* mixins (repositories/openai.py, anthropic.py, gemini.py), the error     *)
(* taxonomy (exceptions.py), the universal model with its streaming chunk  *)
(* type (models/base.py) and the logging utilities (utils/logging.py).     *)
(*                                                                         *)
(* A dispatch is a coroutine: it is modelled as one action per stretch of  *)
(* code between two awaits, so concurrent dispatches interleave at every   *)
(* await.  Module-level wiring (imports, definition order) is taken as     *)
(* resolved; every statement inside a function is modelled as Python       *)
(* executes it.                                                            *)
(*                                                                         *)
(* The adapters behind the capability protocols (models/capabilities.py,   *)
(* models/provider.py) have no implementation in the repository, and       *)
(* neither has the stream reconstructor or the transport (utils.fetch).    *)
(* The adapter operations and the stream fold are modelled from the        *)
(* specification; the transport is an environment that answers each call   *)
(* with a raw response or raises.                                          *)
(***************************************************************************)
EXTENDS Integers, Sequences, FiniteSets, TLC

\* Number of dispatches that may be in progress at the same time.
NumCalls == 2

Calls == 1..NumCalls

None == "None"

\* An attribute that was never assigned: reading it raises AttributeError.
Unset == "<unset>"

Capabilities == {"chat", "embedding", "speech"}

(***************************************************************************)
(* Exceptions.  An exception is a record; cls is the Python class.         *)
(***************************************************************************)

\* exceptions.py: LLMError and its subclasses.
Taxonomy ==
  {"LLMError", "ProviderError", "ValidationError", "UnsupportedOperationError",
   "ConfigurationError", "RateLimitError", "AuthenticationError",
   "QuotaExceededError", "InvalidRequestError", "ContextLengthExceededError"}

\* The error classes that are Provider or a refinement of it.
ProviderClass ==
  {"ProviderError", "RateLimitError", "AuthenticationError",
   "QuotaExceededError", "InvalidRequestError", "ContextLengthExceededError"}

\* LLMError.__init__: message, provider, code = None, raw_error = None.
LLMError(cls, provider, code, raw_error) ==
  [cls |-> cls, provider |-> provider, code |-> code, raw_error |-> raw_error]

\* A built-in exception (ValueError, TypeError, ...): no provider, no code.
BuiltinError(cls) ==
  [cls |-> cls, provider |-> None, code |-> None, raw_error |-> None]

NoError == [cls |-> None, provider |-> None, code |-> None, raw_error |-> None]

(***************************************************************************)
(* Usage (models/base.py).  Every counter is optional and defaults to      *)
(* None.  An optional number is a sequence: empty when absent, <<n>> when  *)
(* it is n, so that a reported 0 is <<0>>.                                 *)
(***************************************************************************)
Absent == <<>>

UsageFields ==
  {"prompt_tokens", "completion_tokens", "total_tokens", "audio_duration",
   "total_dimensions"}

\* A Usage whose unreported counters default to 0.
UsageDefault_Zero == <<0>>

\* The default of every field of Usage: "= None".
UsageDefault == Absent

\* Usage(**given): given maps the names of the fields passed to their values.
Usage(given) ==
  [f \in UsageFields |->
     IF f \in DOMAIN given THEN <<given[f]>> ELSE UsageDefault]

(***************************************************************************)
(* The classes of the universal model (pydantic.BaseModel subclasses       *)
(* with model_config extra = "forbid" and no validator) and their          *)
(* construction.  The keyword arguments of a constructor call are a        *)
(* function from the names passed to the values passed.  A field           *)
(* declared "X | None = None" holds Absent or <<x>>.                       *)
(***************************************************************************)
ContentTypes == {"text", "image", "pdf", "video", "audio"}

Roles == {"system", "user", "assistant", "function"}

ModelClasses ==
  {"MediaSource", "Content", "Function", "FunctionCall", "Message",
   "GenerationConfig", "Usage"}

\* The fields declared without a default.
RequiredFields(cls) ==
  CASE cls = "MediaSource" -> {"type", "mime_type"}
    [] cls = "Content" -> {"type"}
    [] cls = "Function" -> {"name", "description", "parameters"}
    [] cls = "FunctionCall" -> {"name", "arguments"}
    [] cls = "Message" -> {"role", "content"}
    [] cls = "GenerationConfig" -> {}
    [] cls = "Usage" -> {}

\* The fields declared "= None" (of GenerationConfig: the two that concern
\* function calling).
OptionalFields(cls) ==
  CASE cls = "MediaSource" -> {"data", "url", "path"}
    [] cls = "Content" -> {"text", "media"}
    [] cls = "Function" -> {}
    [] cls = "FunctionCall" -> {"response"}
    [] cls = "Message" -> {"name", "function_call"}
    [] cls = "GenerationConfig" -> {"functions", "force_function"}
    [] cls = "Usage" -> UsageFields

\* The value passed for field f has the type the field is annotated with
\* (the enumerations are the only types the inputs can miss).
TypeOK(cls, f, v) ==
  CASE cls \in {"MediaSource", "Content"} /\ f = "type" -> v \in ContentTypes
    [] cls = "Message" /\ f = "role" -> v \in Roles
    [] OTHER -> TRUE

NoObject == [cls |-> None]

\* cls(**args): pydantic checks that every required field is passed, that no
\* unknown field is passed and that every value has the field's type, and
\* nothing else; fields not passed take their default.
BaseModel(cls, args) ==
  IF /\ RequiredFields(cls) \subseteq DOMAIN args
     /\ DOMAIN args \subseteq RequiredFields(cls) \cup OptionalFields(cls)
     /\ \A f \in DOMAIN args : TypeOK(cls, f, args[f])
  THEN [exc |-> NoError,
        value |->
          IF cls = "Usage" THEN Usage(args)
          ELSE [f \in RequiredFields(cls) \cup OptionalFields(cls) |->
                  IF f \in OptionalFields(cls)
                  THEN IF f \in DOMAIN args THEN <<args[f]>> ELSE Absent
                  ELSE args[f]]]
  ELSE [exc |-> BuiltinError("pydantic.ValidationError"), value |-> NoObject]

\* A keyword argument that is passed (<<v>>) or not (Absent).
Arg(f, choice) == IF choice = Absent THEN <<>> ELSE (f :> choice[1])

\* Values the callers pass.
TextPart == BaseModel("Content", ("type" :> "text") @@ ("text" :> "hi")).value

PendingCall ==
  BaseModel("FunctionCall", ("name" :> "f") @@ ("arguments" :> "{}")).value

AnsweredCall ==
  BaseModel("FunctionCall",
            ("name" :> "f") @@ ("arguments" :> "{}") @@ ("response" :> "{}")).value

DeclaredFunction(name) ==
  BaseModel("Function", ("name" :> name) @@ ("description" :> "d")
                          @@ ("parameters" :> "object")).value

(***************************************************************************)
(* The error taxonomy (exceptions.py): the class each class derives from.  *)
(***************************************************************************)

\* A taxonomy in which every class derives from LLMError directly.
Parent_Flat(cls) == IF cls = "LLMError" THEN "Exception" ELSE "LLMError"

Parent(cls) ==
  CASE cls = "LLMError" -> "Exception"
    [] cls \in {"ProviderError", "ValidationError", "UnsupportedOperationError",
                "ConfigurationError"} -> "LLMError"
    [] cls \in {"RateLimitError", "AuthenticationError", "QuotaExceededError",
                "InvalidRequestError", "ContextLengthExceededError"}
         -> "ProviderError"

RECURSIVE issubclass(_, _)
issubclass(cls, base) ==
  \/ cls = base
  \/ cls \in Taxonomy /\ issubclass(Parent(cls), base)

\* cls(message, **args): LLMError.__init__ requires provider; code and
\* raw_error default to None.
NewError(cls, args) ==
  IF "provider" \notin DOMAIN args
  THEN [exc |-> BuiltinError("TypeError"), value |-> NoError]
  ELSE [exc |-> NoError,
        value |-> LLMError(cls, args["provider"],
                           IF "code" \in DOMAIN args THEN args["code"] ELSE None,
                           IF "raw_error" \in DOMAIN args
                           THEN args["raw_error"] ELSE None)]

(***************************************************************************)
(* Requests of the universal model (models/base.py).  No field carries a   *)
(* validator: every combination of field values can be constructed.        *)
(***************************************************************************)
Models == {"m1", "m2"}

ChatRequest(model, messages, functions, force_function) ==
  [model |-> model, messages |-> messages, functions |-> functions,
   force_function |-> force_function]

UserMessage ==
  BaseModel("Message", ("role" :> "user") @@ ("content" :> <<TextPart>>)).value

\* A message without content parts.
EmptyMessage ==
  BaseModel("Message", ("role" :> "user") @@ ("content" :> <<>>)).value

\* Two acceptable requests, one without messages, one with a message without
\* content parts, one that forces a function it does not declare.
ChatRequests ==
  {ChatRequest(m, <<UserMessage>>, {}, None) : m \in Models}
    \cup {ChatRequest("m1", <<>>, {}, None),
          ChatRequest("m1", <<UserMessage, EmptyMessage>>, {}, None),
          ChatRequest("m1", <<UserMessage>>, {}, "f")}

EmbeddingRequests == [model : {"m1"}, input : {<<>>, <<"t">>}]

SpeechRequests == [model : {"m1"}, input : {<<>>, <<"h", "i">>}, voice : {"neutral"}]

RequestsOf(cap) ==
  CASE cap = "chat" -> ChatRequests
    [] cap = "embedding" -> EmbeddingRequests
    [] cap = "speech" -> SpeechRequests

NoRequest == [model |-> None]

(***************************************************************************)
(* The transport's answers: a raw response, or a transport-level error.    *)
(***************************************************************************)
RawResponses == {[id |-> "r1", text |-> "hello", well_formed |-> TRUE],
                 [id |-> "r2", text |-> "{", well_formed |-> FALSE]}

NoRaw == [id |-> None, text |-> None, well_formed |-> TRUE]

TransportErrors == {"HTTP429", "Timeout"}

Replies ==
  [kind : {"response"}, raw : RawResponses, exc : {None}]
    \cup [kind : {"raise"}, raw : {NoRaw}, exc : TransportErrors]

NoReply == [kind |-> None, raw |-> NoRaw, exc |-> None]

(***************************************************************************)
(* Dispatchers.  A dispatcher object is a record of its attributes:        *)
(*   cls      the class, module the file whose dispatch code it runs,      *)
(*   mixin    the provider mixin that supplies provider_name, base_url,    *)
(*            _get_api_key and _get_headers (None: the bare base class),   *)
(*   api_key  Unset (ChatRepository.__init__ of repositories/base.py never *)
(*            assigns it), "" (falsy, what _validate_configuration tests   *)
(*            for) or a key (BaseLLMRepository.__init__ ran),              *)
(*   provider the adapter bound at construction,                           *)
(*   version  GeminiBaseMixin.version.                                     *)
(***************************************************************************)
ApiKeys == {Unset, "", "sk-key"}

Repository(cls, module, mixin, api_key) ==
  [cls |-> cls, module |-> module, mixin |-> mixin, api_key |-> api_key,
   provider |-> IF mixin = None THEN "generic" ELSE mixin,
   version |-> IF mixin = "gemini" THEN "v1" ELSE Unset]

\* LLMService.__init__: a repository that was not given is None.
NoRepo ==
  [cls |-> None, module |-> None, mixin |-> None, api_key |-> Unset,
   provider |-> None, version |-> Unset]

LLMService(chat_repo, embedding_repo, speech_repo) ==
  [chat_repo |-> chat_repo, embedding_repo |-> embedding_repo,
   speech_repo |-> speech_repo]

\* The services that can be built from the repository classes of the source.
\* The provider repositories are taken with every state of the key.  The bare
\* classes are taken as their constructors leave them: those of
\* repositories/base.py never assign api_key, and BaseLLMRepository.__init__
\* of repositories/base_new.py ("api_key or self._get_api_key()", where
\* _get_api_key raises) completes only when it is given a key.
Deployments ==
  {LLMService(NoRepo, NoRepo, NoRepo),
   LLMService(Repository("ChatRepository", "base", None, Unset),
              Repository("EmbeddingRepository", "base", None, Unset),
              Repository("SpeechRepository", "base", None, Unset)),
   LLMService(Repository("ChatRepository", "base_new", None, "sk-key"),
              Repository("EmbeddingRepository", "base_new", None, "sk-key"),
              Repository("SpeechRepository", "base_new", None, "sk-key"))}
    \cup UNION {
      {LLMService(Repository("OpenAIChatRepository", "base", "openai", k),
                  Repository("OpenAIEmbeddingRepository", "base", "openai", k),
                  NoRepo),
       LLMService(Repository("AnthropicChatRepository", "base", "anthropic", k),
                  NoRepo, NoRepo),
       LLMService(Repository("GeminiChatRepository", "gemini", "gemini", k),
                  Repository("GeminiEmbeddingRepository", "gemini", "gemini", k),
                  NoRepo)}
      : k \in ApiKeys}

\* The class attribute provider_name: only the mixins give it a value.
provider_name(r) ==
  IF r.mixin \in {"openai", "anthropic", "gemini"} THEN r.mixin ELSE Unset

\* The class attribute base_url: only the mixins give it a value.
base_url(r) ==
  CASE r.mixin = "openai" -> "https://api.openai.com"
    [] r.mixin = "anthropic" -> "https://api.anthropic.com"
    [] r.mixin = "gemini" -> "https://generativelanguage.googleapis.com"
    [] OTHER -> Unset

\* lib.app.settings.llms: the optional values, none configured.
settings ==
  [openai_org_id |-> None, anthropic_version |-> None, gemini_version |-> None]

\* x or default, for a value that is None when absent.
OrDefault(x, default) == IF x = None \/ x = "" THEN default ELSE x

\* _get_headers of the bound class: the headers, or the exception it raises.
get_headers(r) ==
  CASE r.mixin = "openai" ->
         IF r.api_key = Unset
         THEN [exc |-> BuiltinError("AttributeError"), headers |-> <<>>]
         ELSE [exc |-> NoError,
               headers |->
                 ("Authorization" :> <<"Bearer ", r.api_key>>)
                   @@ ("Content-Type" :> <<"application/json">>)
                   @@ ("OpenAI-Organization"
                         :> <<OrDefault(settings.openai_org_id, "")>>)]
    [] r.mixin = "anthropic" ->
         IF r.api_key = Unset
         THEN [exc |-> BuiltinError("AttributeError"), headers |-> <<>>]
         ELSE [exc |-> NoError,
               headers |->
                 ("x-api-key" :> <<r.api_key>>)
                   @@ ("anthropic-version"
                         :> <<OrDefault(settings.anthropic_version, "2023-06-01")>>)
                   @@ ("Content-Type" :> <<"application/json">>)]
    [] r.mixin = "gemini" ->
         [exc |-> NoError,
          headers |-> ("Content-Type" :> <<"application/json">>)]
    \* BaseLLMRepository._get_headers: the message of its NotImplementedError
    \* reads self.provider_name, which the bare class never assigns.
    [] OTHER -> [exc |-> BuiltinError("AttributeError"), headers |-> <<>>]

\* BaseLLMRepository._validate_configuration: the exception raised, or NoError.
validate_configuration(r) ==
  IF r.api_key = Unset THEN BuiltinError("AttributeError")
  ELSE IF r.api_key = ""
       THEN IF provider_name(r) = Unset
            THEN BuiltinError("AttributeError")
            ELSE LLMError("ConfigurationError", provider_name(r), None, None)
       ELSE NoError

\* isinstance(self.provider, capabilities.<X>Provider): the capability
\* protocols are typing.Protocol classes without @runtime_checkable, for which
\* an instance check raises TypeError whatever the instance.
isinstance_protocol(r, cp) ==
  [exc |-> BuiltinError("TypeError"), value |-> FALSE]

\* The statements of a dispatch that precede the call of validate.
Precheck(r, cp) ==
  IF r.module = "base" THEN NoError
  ELSE LET conf == validate_configuration(r)
           inst == isinstance_protocol(r, cp)
       IN  IF conf # NoError THEN conf
           ELSE IF inst.exc # NoError THEN inst.exc
           ELSE IF ~inst.value
                THEN IF provider_name(r) = Unset
                     THEN BuiltinError("AttributeError")
                     ELSE LLMError("UnsupportedOperationError",
                                   provider_name(r), None, None)
                ELSE NoError

\* A dispatch that never takes the branch of "if errors:".
Truthy_Never(errs) == FALSE

\* if errors: -- a list is true when it is not empty.
Truthy(errs) == errs # <<>>

\* if errors: raise ...  -- the exception a non-empty validation result raises.
ValidationFailure(r, errs) ==
  IF r.module = "base" THEN BuiltinError("ValueError")
  ELSE IF provider_name(r) = Unset THEN BuiltinError("AttributeError")
  ELSE LLMError("ValidationError", provider_name(r), None, None)

(***************************************************************************)
(* The adapter operations (the capability contract).  The repository holds *)
(* only their protocol declarations; they are modelled from the            *)
(* specification as pure functions of their arguments.                     *)
(***************************************************************************)

\* An adapter whose validate looks at the configuration only.
validate_request_IgnoresMessages(cp, req) ==
  IF cp = "chat" /\ req.force_function # None
       /\ req.force_function \notin req.functions
  THEN <<"force_function: not declared in functions">>
  ELSE <<>>

\* validate: the list of problems of a request; empty when it is acceptable.
validate_request(cp, req) ==
  CASE cp = "chat" ->
         (IF req.messages = <<>> THEN <<"messages: empty list">> ELSE <<>>)
           \o (IF \E i \in DOMAIN req.messages : req.messages[i].content = <<>>
               THEN <<"messages: message without content">>
               ELSE <<>>)
           \o (IF req.force_function # None
                   /\ req.force_function \notin req.functions
               THEN <<"force_function: not declared in functions">>
               ELSE <<>>)
    [] cp = "embedding" ->
         IF req.input = <<>> THEN <<"input: empty list">> ELSE <<>>
    [] cp = "speech" ->
         IF req.input = <<>> THEN <<"input: empty text">> ELSE <<>>

\* convert-request: the provider-native request body.
convert_request(cp, req) ==
  CASE cp = "chat" ->
         [model |-> req.model, messages |-> req.messages,
          tool_choice |-> req.force_function]
    [] cp = "embedding" -> [model |-> req.model, input |-> req.input]
    [] cp = "speech" ->
         [model |-> req.model, input |-> req.input, voice |-> req.voice]

NoBody == [model |-> None]

NoResponse == [id |-> None, content |-> None, model |-> None]

\* convert-response: the universal response built from the raw response and
\* the original request; vendor-embedded JSON that does not parse is reported
\* as a Validation-class error.
convert_response(provider, cp, raw, req) ==
  IF raw.well_formed
  THEN [exc |-> NoError,
        response |-> [id |-> raw.id, content |-> raw.text, model |-> req.model]]
  ELSE [exc |-> LLMError("ValidationError", provider, None, None),
        response |-> NoResponse]

\* map-error: the taxonomy error for a raw exception e.  A recognized status
\* maps to its refinement of Provider; anything else maps to the generic
\* Provider error.  The raw error is retained (by its class).
convert_error(provider, e) ==
  CASE e.cls = "HTTP429" -> LLMError("RateLimitError", provider, "429", e.cls)
    [] e.cls = "HTTP401" -> LLMError("AuthenticationError", provider, "401", e.cls)
    [] OTHER -> LLMError("ProviderError", provider, None, e.cls)

(***************************************************************************)
(* The transport call of a dispatch: the arguments of fetch.make_request,  *)
(* evaluated in the order written.                                         *)
(***************************************************************************)

\* The path of the dispatch code in repositories/base.py and base_new.py.
EndpointPath(cp) ==
  CASE cp = "chat" -> "/v1/chat/completions"
    [] cp = "embedding" -> "/v1/embeddings"
    [] cp = "speech" -> "/v1/audio/speech"

\* The url argument: an f-string over self.base_url (and, in the Gemini
\* overrides, self.version and request.model).
RequestUrl(r, cp, req) ==
  IF r.module = "gemini"
  THEN <<base_url(r), "/", r.version, "/models/", req.model,
         IF cp = "chat" THEN ":generateContent" ELSE ":embedContent">>
  ELSE <<base_url(r), EndpointPath(cp)>>

NoCall ==
  [cap |-> None, url |-> <<>>, method |-> None, headers |-> <<>>,
   params |-> <<>>, body |-> NoBody]

\* The keyword arguments of fetch.make_request, or the exception raised while
\* they are evaluated (inside the try block).
TransportCall(r, cp, req, body) ==
  LET h == get_headers(r) IN
  IF base_url(r) = Unset
  THEN [exc |-> BuiltinError("AttributeError"), call |-> NoCall]
  ELSE IF h.exc # NoError THEN [exc |-> h.exc, call |-> NoCall]
  ELSE IF r.module = "gemini" /\ r.api_key = Unset
  THEN [exc |-> BuiltinError("AttributeError"), call |-> NoCall]
  ELSE [exc |-> NoError,
        call |-> [cap |-> cp, url |-> RequestUrl(r, cp, req), method |-> "POST",
                  headers |-> h.headers,
                  params |-> IF r.module = "gemini"
                             THEN ("key" :> r.api_key) ELSE <<>>,
                  body |-> body]]

\* A handler that raises the exception it caught, unmapped.
RaisedFromHandler_Reraise(provider, e) == e

\* raise await self.provider.convert_error(e): what the handler raises.
RaisedFromHandler(provider, e) == convert_error(provider, e)

(***************************************************************************)
(* State.                                                                  *)
(*   service        the LLMService object and the dispatchers it holds     *)
(*   pc             where each dispatch stands                             *)
(*   cap, request   the operation called and the request it was given      *)
(*   errors         the local variable errors (the result of validate)     *)
(*   provider_request  the local variable provider_request                 *)
(*   reply          the transport's answer to the dispatch                 *)
(*   fault          the adapter operation that raised, if one did          *)
(*   caught         the exception e bound by "except Exception as e"       *)
(*   outcome        the value returned or the exception raised to the      *)
(*                  caller                                                 *)
(*   trace          the collaborator operations invoked, in order          *)
(*   transport_log  the calls of fetch.make_request of each dispatch, in   *)
(*                  order                                                  *)
(***************************************************************************)
VARIABLES service, pc, cap, request, errors, provider_request, reply, fault,
          caught, outcome, trace, transport_log

(***************************************************************************)
(* State of a stream reconstruction.                                       *)
(*   chunks      the ChatStreamResponse values of one request, in order    *)
(*   consumed    how many of them have been folded                         *)
(*   acc         the response reconstructed so far                         *)
(*   completion  the text of each content part of the non-streaming        *)
(*               response for the same completion                          *)
(***************************************************************************)
VARIABLES chunks, consumed, acc, completion

(***************************************************************************)
(* A caller that builds values of the universal model and errors of the    *)
(* taxonomy.                                                               *)
(*   built   the last constructor call: the class, the keyword arguments,  *)
(*           the exception raised or the object built, and, for an error   *)
(*           that is then raised, the class named by the except clause it  *)
(*           meets and whether that clause caught it                       *)
(***************************************************************************)
VARIABLES built

(***************************************************************************)
(* A call of an operation decorated with log_operation (utils/logging.py). *)
(*   log_flags    the arguments of the decorator: log_request,             *)
(*                log_response, mask_sensitive                             *)
(*   log_call     the call of the wrapper: the capability, the request and *)
(*                whether the request is passed by keyword                 *)
(*   log_inner    what the decorated operation does with that request when *)
(*                it runs: the value it returns or the exception it raises *)
(*   log_pc       where the wrapper stands                                 *)
(*   log_outcome  what the wrapper returns or raises to its caller         *)
(*   log_records  the messages RequestLogger has logged, in order          *)
(***************************************************************************)
VARIABLES log_flags, log_call, log_inner, log_pc, log_outcome, log_records

(***************************************************************************)
(* A call of mask_sensitive_data (utils/logging.py).                       *)
(*   mask_data   the dictionary the caller holds and passes                *)
(*   mask_out    the dictionary returned                                   *)
(*   mask_twice  the dictionary returned when mask_out is passed in turn   *)
(*   mask_pc     where the caller stands                                   *)
(***************************************************************************)
VARIABLES mask_data, mask_out, mask_twice, mask_pc

dispatch_vars ==
  <<service, pc, cap, request, errors, provider_request, reply, fault,
    caught, outcome, trace, transport_log>>

stream_vars == <<chunks, consumed, acc, completion>>

model_vars == <<built>>

log_vars ==
  <<log_flags, log_call, log_inner, log_pc, log_outcome, log_records>>

mask_vars == <<mask_data, mask_out, mask_twice, mask_pc>>

vars == <<dispatch_vars, stream_vars, model_vars, log_vars, mask_vars>>

NoOutcome == [kind |-> None, error |-> NoError, response |-> NoResponse]

Raised(e) == [kind |-> "error", error |-> e, response |-> NoResponse]

Returned(resp) == [kind |-> "response", error |-> NoError, response |-> resp]

\* self.chat_repo, self.embedding_repo, self.speech_repo of a service.
RepoOf(svc, cp) ==
  CASE cp = "chat" -> svc.chat_repo
    [] cp = "embedding" -> svc.embedding_repo
    [] cp = "speech" -> svc.speech_repo

\* An exception raised by an adapter operation itself.
AdapterFault == BuiltinError("AdapterFault")

\* No stream is being reconstructed.
StreamIdle ==
  /\ chunks = <<>>
  /\ consumed = 0
  /\ acc = [content |-> <<>>, usage |-> <<>>, done |-> FALSE, error |-> NoError]
  /\ completion = <<>>

\* Nothing has been constructed.
NothingBuilt ==
  built = [cls |-> None, args |-> <<>>, exc |-> NoError, value |-> NoObject,
           handler |-> None, caught |-> FALSE]

\* No dictionary has been passed to mask_sensitive_data.
NothingMasked ==
  /\ mask_data = <<>>
  /\ mask_out = <<>>
  /\ mask_twice = <<>>
  /\ mask_pc = "idle"

\* An operation decorated with the given flags, not called yet.
Decorated(flags) ==
  /\ log_flags \in flags
  /\ log_call = [cap |-> None, request |-> NoRequest, by_keyword |-> FALSE]
  /\ log_inner = NoOutcome
  /\ log_pc = "idle"
  /\ log_outcome = NoOutcome
  /\ log_records = <<>>

\* The defaults of log_operation: log_request, log_response and
\* mask_sensitive are True.
DefaultFlags ==
  [log_request |-> TRUE, log_response |-> TRUE, mask_sensitive |-> TRUE]

\* A service, and no dispatch called yet.
DispatchInit(deployments) ==
  /\ service \in deployments
  /\ pc = [c \in Calls |-> "idle"]
  /\ cap = [c \in Calls |-> None]
  /\ request = [c \in Calls |-> NoRequest]
  /\ errors = [c \in Calls |-> <<>>]
  /\ provider_request = [c \in Calls |-> NoBody]
  /\ reply = [c \in Calls |-> NoReply]
  /\ fault = [c \in Calls |-> None]
  /\ caught = [c \in Calls |-> NoError]
  /\ outcome = [c \in Calls |-> NoOutcome]
  /\ trace = [c \in Calls |-> <<>>]
  /\ transport_log = [c \in Calls |-> <<>>]

Init ==
  /\ DispatchInit(Deployments)
  /\ StreamIdle
  /\ NothingBuilt
  /\ Decorated({DefaultFlags})
  /\ NothingMasked

\* The dispatch ends: the caller gets the outcome.
Finish(c, out) ==
  /\ outcome' = [outcome EXCEPT ![c] = out]
  /\ pc' = [pc EXCEPT ![c] = "done"]

\* The dispatch invokes a collaborator operation and awaits it.
Invoke(c, op, state) ==
  /\ trace' = [trace EXCEPT ![c] = Append(@, op)]
  /\ pc' = [pc EXCEPT ![c] = state]

(***************************************************************************)
(* LLMService.complete / embed / synthesize, and the dispatch up to its    *)
(* first await: the configuration check and the capability check (in       *)
(* base_new.py and gemini.py), then the call of validate.                  *)
(***************************************************************************)
Start(c) ==
  /\ pc[c] = "idle"
  /\ \E cp \in Capabilities : \E req \in RequestsOf(cp) :
       LET r == RepoOf(service, cp) IN
       /\ cap' = [cap EXCEPT ![c] = cp]
       /\ request' = [request EXCEPT ![c] = req]
       /\ IF r = NoRepo
          THEN /\ Finish(c, Raised(BuiltinError("NotImplementedError")))
               /\ UNCHANGED trace
          ELSE IF Precheck(r, cp) # NoError
          THEN /\ Finish(c, Raised(Precheck(r, cp)))
               /\ UNCHANGED trace
          ELSE /\ Invoke(c, "validate", "validating")
               /\ UNCHANGED outcome
  /\ UNCHANGED <<service, errors, provider_request, reply, fault, caught,
                 transport_log>>

\* A dispatch whose try block begins before the call of validate: an
\* exception validate raises is caught and handed to convert_error.
Validated_InsideTry(c) ==
  /\ pc[c] = "validating"
  /\ \E flt \in {None, "validate"} :
       LET r == RepoOf(service, cap[c])
           errs == validate_request(cap[c], request[c])
       IN
       /\ fault' = [fault EXCEPT ![c] = flt]
       /\ IF flt # None
          THEN /\ caught' = [caught EXCEPT ![c] = AdapterFault]
               /\ Invoke(c, "convert_error", "mapping_error")
               /\ UNCHANGED <<errors, outcome>>
          ELSE /\ errors' = [errors EXCEPT ![c] = errs]
               /\ UNCHANGED caught
               /\ IF Truthy(errs)
                  THEN /\ Finish(c, Raised(ValidationFailure(r, errs)))
                       /\ UNCHANGED trace
                  ELSE /\ Invoke(c, "convert_request", "converting")
                       /\ UNCHANGED outcome
  /\ UNCHANGED <<service, cap, request, provider_request, reply,
                 transport_log>>

(***************************************************************************)
(* errors = await self.provider.validate_..._request(request); if errors:  *)
(* raise ...; then the call of convert-request.                            *)
(***************************************************************************)
Validated(c) ==
  /\ pc[c] = "validating"
  /\ \E flt \in {None, "validate"} :
       LET r == RepoOf(service, cap[c])
           errs == validate_request(cap[c], request[c])
       IN
       /\ fault' = [fault EXCEPT ![c] = flt]
       /\ IF flt # None
          THEN /\ Finish(c, Raised(AdapterFault))
               /\ UNCHANGED <<errors, trace>>
          ELSE /\ errors' = [errors EXCEPT ![c] = errs]
               /\ IF Truthy(errs)
                  THEN /\ Finish(c, Raised(ValidationFailure(r, errs)))
                       /\ UNCHANGED trace
                  ELSE /\ Invoke(c, "convert_request", "converting")
                       /\ UNCHANGED outcome
  /\ UNCHANGED <<service, cap, request, provider_request, reply, caught,
                 transport_log>>

(***************************************************************************)
(* provider_request = await self.provider.convert_..._request(request),    *)
(* then, inside the try block, the arguments of fetch.make_request and its *)
(* call.  An exception raised while the arguments are evaluated is caught  *)
(* and handed to convert_error.                                            *)
(***************************************************************************)
\* An adapter that keeps what it converted: once a dispatch has handed a
\* request to the transport, the next conversion marks its result as a
\* follow-up.
NativeRequest_HiddenState(c) ==
  [convert_request(cap[c], request[c]) EXCEPT
     !.model = IF \E d \in Calls : transport_log[d] # <<>>
               THEN "follow-up" ELSE @]

\* provider_request = await self.provider.convert_..._request(request)
NativeRequest(c) == convert_request(cap[c], request[c])

Converted(c) ==
  /\ pc[c] = "converting"
  /\ \E flt \in {None, "convert_request"} :
       LET r == RepoOf(service, cap[c])
           body == NativeRequest(c)
           tc == TransportCall(r, cap[c], request[c], body)
       IN
       /\ fault' = [fault EXCEPT ![c] = flt]
       /\ IF flt # None
          THEN /\ Finish(c, Raised(AdapterFault))
               /\ UNCHANGED <<provider_request, caught, trace, transport_log>>
          ELSE /\ provider_request' = [provider_request EXCEPT ![c] = body]
               /\ IF tc.exc # NoError
                  THEN /\ caught' = [caught EXCEPT ![c] = tc.exc]
                       /\ Invoke(c, "convert_error", "mapping_error")
                       /\ UNCHANGED transport_log
                  ELSE /\ transport_log' =
                            [transport_log EXCEPT ![c] = Append(@, tc.call)]
                       /\ Invoke(c, "make_request", "transporting")
                       /\ UNCHANGED caught
               /\ UNCHANGED outcome
  /\ UNCHANGED <<service, cap, request, errors, reply>>

\* A dispatch that calls the transport again when it raised.
TransportAnswers_Retry(c) ==
  /\ pc[c] = "transporting"
  /\ \E rep \in Replies :
       /\ reply' = [reply EXCEPT ![c] = rep]
       /\ IF rep.kind = "raise" /\ Len(trace[c]) < 4
          THEN /\ transport_log' =
                    [transport_log EXCEPT ![c] = Append(@, @[Len(@)])]
               /\ Invoke(c, "make_request", "transporting")
               /\ UNCHANGED caught
          ELSE IF rep.kind = "raise"
          THEN /\ caught' = [caught EXCEPT ![c] = BuiltinError(rep.exc)]
               /\ Invoke(c, "convert_error", "mapping_error")
               /\ UNCHANGED transport_log
          ELSE /\ Invoke(c, "convert_response", "converting_back")
               /\ UNCHANGED <<caught, transport_log>>
  /\ UNCHANGED <<service, cap, request, errors, provider_request, fault,
                 outcome>>

(***************************************************************************)
(* raw_response = await fetch.make_request(...): the transport answers.    *)
(* A raw response is handed to convert-response; an exception is caught    *)
(* and handed to convert_error.                                            *)
(***************************************************************************)
TransportAnswers(c) ==
  /\ pc[c] = "transporting"
  /\ \E rep \in Replies :
       /\ reply' = [reply EXCEPT ![c] = rep]
       /\ IF rep.kind = "raise"
          THEN /\ caught' = [caught EXCEPT ![c] = BuiltinError(rep.exc)]
               /\ Invoke(c, "convert_error", "mapping_error")
          ELSE /\ Invoke(c, "convert_response", "converting_back")
               /\ UNCHANGED caught
  /\ UNCHANGED <<service, cap, request, errors, provider_request, fault,
                 outcome, transport_log>>

\* A dispatcher that keeps the request on the instance (shared by all its
\* dispatches) and reads it back after the await: it finds the request of
\* another dispatch of that capability that has reached the transport since.
RequestOfDispatch_Shared(c) ==
  LET others == {d \in Calls : /\ cap[d] = cap[c]
                               /\ pc[d] \in {"transporting", "converting_back"}}
  IN  request[CHOOSE d \in others : \A e \in others : e <= d]

\* The request a dispatch hands to convert-response: its own parameter.
RequestOfDispatch(c) == request[c]

(***************************************************************************)
(* return await self.provider.convert_..._response(raw_response, request)  *)
(* An exception it raises is caught and handed to convert_error: the one   *)
(* it raises for a malformed raw response, or, for a well-formed one, an   *)
(* exception of the adapter's own.                                         *)
(***************************************************************************)
ConvertedBack(c) ==
  /\ pc[c] = "converting_back"
  /\ \E flt \in (IF reply[c].raw.well_formed
                  THEN {None, "convert_response"} ELSE {None}) :
       LET r == RepoOf(service, cap[c])
           res == convert_response(r.provider, cap[c], reply[c].raw,
                                   RequestOfDispatch(c))
           exc == IF flt # None THEN AdapterFault ELSE res.exc
       IN
       /\ fault' = [fault EXCEPT ![c] = flt]
       /\ IF exc # NoError
          THEN /\ caught' = [caught EXCEPT ![c] = exc]
               /\ Invoke(c, "convert_error", "mapping_error")
               /\ UNCHANGED outcome
          ELSE /\ Finish(c, Returned(res.response))
               /\ UNCHANGED <<caught, trace>>
  /\ UNCHANGED <<service, cap, request, errors, provider_request, reply,
                 transport_log>>

\* A handler that swallows the error: the dispatch returns an empty response.
ErrorMapped_Swallows(c) ==
  /\ pc[c] = "mapping_error"
  /\ Finish(c, Returned(NoResponse))
  /\ UNCHANGED <<service, cap, request, errors, provider_request, reply, fault,
                 caught, trace, transport_log>>

\* A dispatch that clears the key of its dispatcher when it fails.
ErrorMapped_ClearsKey(c) ==
  /\ pc[c] = "mapping_error"
  /\ Finish(c, Raised(convert_error(RepoOf(service, cap[c]).provider, caught[c])))
  /\ service' =
       [f \in DOMAIN service |->
          IF service[f] = RepoOf(service, cap[c])
          THEN [service[f] EXCEPT !.api_key = ""]
          ELSE service[f]]
  /\ UNCHANGED <<cap, request, errors, provider_request, reply, fault, caught,
                 trace, transport_log>>

(***************************************************************************)
(* raise await self.provider.convert_error(e)                              *)
(***************************************************************************)
ErrorMapped(c) ==
  /\ pc[c] = "mapping_error"
  /\ Finish(c, Raised(RaisedFromHandler(RepoOf(service, cap[c]).provider,
                                        caught[c])))
  /\ UNCHANGED <<service, cap, request, errors, provider_request, reply, fault,
                 caught, trace, transport_log>>

Next ==
  /\ UNCHANGED <<stream_vars, model_vars, log_vars, mask_vars>>
  /\ \E c \in Calls :
       \/ Start(c)
       \/ Validated(c)
       \/ Converted(c)
       \/ TransportAnswers(c)
       \/ ConvertedBack(c)
       \/ ErrorMapped(c)

Spec == Init /\ [][Next]_vars

(***************************************************************************)
(* One dispatch run from its call to its end without interruption: the     *)
(* outcome for a request, given the adapter fault (if any) and the         *)
(* transport's answer that the dispatch meets.                             *)
(***************************************************************************)
Dispatch(svc, cp, req, flt, rep) ==
  LET r == RepoOf(svc, cp)
      body == convert_request(cp, req)
      tc == TransportCall(r, cp, req, body)
      res == convert_response(r.provider, cp, rep.raw, req)
  IN
  IF r = NoRepo THEN Raised(BuiltinError("NotImplementedError"))
  ELSE IF Precheck(r, cp) # NoError THEN Raised(Precheck(r, cp))
  ELSE IF flt = "validate" THEN Raised(AdapterFault)
  ELSE IF Truthy(validate_request(cp, req))
  THEN Raised(ValidationFailure(r, validate_request(cp, req)))
  ELSE IF flt = "convert_request" THEN Raised(AdapterFault)
  ELSE IF tc.exc # NoError THEN Raised(RaisedFromHandler(r.provider, tc.exc))
  ELSE IF rep.kind = "raise"
  THEN Raised(RaisedFromHandler(r.provider, BuiltinError(rep.exc)))
  ELSE IF flt = "convert_response"
  THEN Raised(RaisedFromHandler(r.provider, AdapterFault))
  ELSE IF res.exc # NoError THEN Raised(RaisedFromHandler(r.provider, res.exc))
  ELSE Returned(res.response)

\* The collaborator operations that dispatch invokes, in order.
Invocations(svc, cp, req, flt, rep) ==
  LET r == RepoOf(svc, cp)
      body == convert_request(cp, req)
      tc == TransportCall(r, cp, req, body)
      res == convert_response(r.provider, cp, rep.raw, req)
  IN
  IF r = NoRepo \/ Precheck(r, cp) # NoError THEN <<>>
  ELSE IF flt = "validate" \/ Truthy(validate_request(cp, req))
  THEN <<"validate">>
  ELSE IF flt = "convert_request" THEN <<"validate", "convert_request">>
  ELSE IF tc.exc # NoError
  THEN <<"validate", "convert_request", "convert_error">>
  ELSE IF rep.kind = "raise"
  THEN <<"validate", "convert_request", "make_request", "convert_error">>
  ELSE IF flt = "convert_response" \/ res.exc # NoError
  THEN <<"validate", "convert_request", "make_request", "convert_response",
         "convert_error">>
  ELSE <<"validate", "convert_request", "make_request", "convert_response">>

(***************************************************************************)
(* Properties of the dispatchers and the service facade.                   *)
(***************************************************************************)

\* The operation op occurs in the trace t.
Has(t, op) == \E i \in 1..Len(t) : t[i] = op

\* The number of occurrences of op in the trace t.
Count(t, op) == Cardinality({i \in 1..Len(t) : t[i] = op})

\* The calls of the transport made by the dispatch c.
TransportCallsOf(c) == DOMAIN transport_log[c]

\* The dispatcher that serves the dispatch c.
RepoOfCall(c) == RepoOf(service, cap[c])

\* C1: in every dispatch validate is invoked before convert-request, and when
\* validate returned a non-empty list neither convert-request nor the
\* transport is ever invoked in that dispatch.
C1_ValidateBeforeConvert ==
  \A c \in Calls :
    /\ (Has(trace[c], "convert_request") \/ Has(trace[c], "make_request")
          \/ TransportCallsOf(c) # {})
         => /\ trace[c][1] = "validate"
            /\ errors[c] = <<>>
    /\ errors[c] # <<>>
         => /\ ~Has(trace[c], "convert_request")
            /\ ~Has(trace[c], "make_request")
            /\ TransportCallsOf(c) = {}

\* A dispatch ended on a non-empty validation result, and another went on to
\* convert its request after validate accepted it.
C1_Witness ==
  \E c, d \in Calls :
    /\ pc[c] = "done" /\ errors[c] # <<>> /\ trace[c] = <<"validate">>
    /\ Has(trace[d], "convert_request") /\ Has(trace[d], "make_request")

\* C2: an exception raised by the transport is passed to the adapter's
\* convert_error, and the dispatch ends with the error convert_error returned,
\* never with the raw exception; the path is the same for every exception.
C2_TransportErrorsAreMapped ==
  \A c \in Calls :
    reply[c].kind = "raise"
      => /\ caught[c] = BuiltinError(reply[c].exc)
         /\ trace[c] =
              <<"validate", "convert_request", "make_request", "convert_error">>
         /\ pc[c] \in {"mapping_error", "done"}
         /\ pc[c] = "done"
              => /\ outcome[c] =
                      Raised(convert_error(RepoOfCall(c).provider,
                                           BuiltinError(reply[c].exc)))
                 /\ outcome[c].error # BuiltinError(reply[c].exc)
                 /\ outcome[c].error.raw_error = reply[c].exc

\* A dispatch whose transport call raised has ended.
C2_Witness ==
  \E c \in Calls :
    /\ pc[c] = "done" /\ reply[c].kind = "raise"
    /\ outcome[c].kind = "error"

\* C3: a non-empty validation result ends the dispatch with a ValidationError
\* of the taxonomy that carries the provider identity, in the dispatchers the
\* service facade and the provider repositories use.
C3_ValidationErrorRaised ==
  \A c \in Calls :
    (pc[c] = "done" /\ errors[c] # <<>>)
      => /\ outcome[c].kind = "error"
         /\ outcome[c].error.cls = "ValidationError"
         /\ outcome[c].error.provider \notin {None, Unset}

\* The order of the collaborator operations of one dispatch.
Rank(op) ==
  CASE op = "validate" -> 1
    [] op = "convert_request" -> 2
    [] op = "make_request" -> 3
    [] op = "convert_response" -> 4
    [] op = "convert_error" -> 5

\* The state a dispatch is in after it invoked op.
StateAfter(op) ==
  CASE op = "validate" -> "validating"
    [] op = "convert_request" -> "converting"
    [] op = "make_request" -> "transporting"
    [] op = "convert_response" -> "converting_back"
    [] op = "convert_error" -> "mapping_error"

\* C4: a dispatch moves through Validating, Converting, Transporting,
\* Converting-Back in that order and stops at the first failure or at success:
\* no state is entered twice, no step is retried, the transport is invoked at
\* most once, and a dispatch that has ended takes no further step.
C4_FourStatesInOrder ==
  /\ [](\A c \in Calls :
          /\ \A i, j \in 1..Len(trace[c]) :
               i < j => Rank(trace[c][i]) < Rank(trace[c][j])
          /\ \A i \in 1..Len(trace[c]) :
               trace[c][i] # "convert_error" => Rank(trace[c][i]) = i
          /\ Count(trace[c], "make_request") <= 1
          /\ Cardinality(TransportCallsOf(c)) = Count(trace[c], "make_request")
          /\ pc[c] \notin {"idle", "done"}
               => pc[c] = StateAfter(trace[c][Len(trace[c])]))
  /\ [][\A c \in Calls :
          pc[c] = "done"
            => /\ pc'[c] = "done"
               /\ trace'[c] = trace[c]
               /\ outcome'[c] = outcome[c]
               /\ TransportCallsOf(c)' = TransportCallsOf(c)]_vars

\* A dispatch went through all four states and succeeded, and another one
\* stopped after its transport call raised.
C4_Witness ==
  \E c, d \in Calls :
    /\ pc[c] = "done" /\ outcome[c].kind = "response"
    /\ trace[c] =
         <<"validate", "convert_request", "make_request", "convert_response">>
    /\ pc[d] = "done" /\ reply[d].kind = "raise"
    /\ Count(trace[d], "make_request") = 1

\* C5: every error that leaves the service or a dispatcher is an error of the
\* LLM error taxonomy that carries the provider identity, whichever stage
\* failed.
C5_OnlyTaxonomyErrors ==
  \A c \in Calls :
    outcome[c].kind = "error"
      => /\ outcome[c].error.cls \in Taxonomy
         /\ outcome[c].error.provider \notin {None, Unset}

\* C6: calling an operation whose dispatcher is missing ends with the
\* taxonomy's UnsupportedOperationError, and invokes no dispatcher, adapter or
\* transport operation.
C6_MissingDispatcherUnsupported ==
  \A c \in Calls :
    (pc[c] = "done" /\ RepoOfCall(c) = NoRepo)
      => /\ outcome[c].kind = "error"
         /\ outcome[c].error.cls = "UnsupportedOperationError"
         /\ trace[c] = <<>>
         /\ TransportCallsOf(c) = {}

\* The API key of a dispatcher is absent or empty.
KeyMissing(r) == r.api_key \in {Unset, ""}

\* C7: a missing API key is surfaced as a ConfigurationError before any
\* network activity: a dispatch through a dispatcher whose key is absent or
\* empty ends with a ConfigurationError and never invokes the transport.
C7_MissingKeyIsConfigurationError ==
  \A c \in Calls :
    (cap[c] # None /\ RepoOfCall(c) # NoRepo /\ KeyMissing(RepoOfCall(c)))
      => /\ TransportCallsOf(c) = {}
         /\ ~Has(trace[c], "make_request")
         /\ pc[c] = "done"
              => /\ outcome[c].kind = "error"
                 /\ outcome[c].error.cls = "ConfigurationError"

\* C8: concurrent dispatches through the same dispatcher do not interfere:
\* whatever the interleaving, a dispatch ends with the outcome it has when run
\* alone with the same request, adapter fault and transport answer, and it
\* hands the transport the call it builds when run alone.
C8_NoInterference ==
  \A c \in Calls :
    /\ pc[c] = "done"
         => outcome[c] = Dispatch(service, cap[c], request[c], fault[c], reply[c])
    /\ \A i \in TransportCallsOf(c) :
         transport_log[c][i] =
           TransportCall(RepoOfCall(c), cap[c], request[c],
                         convert_request(cap[c], request[c])).call

\* A dispatch succeeded after another dispatch of the same capability, with a
\* different request, had reached the transport and was still in progress.
C8_Witness ==
  \E c, d \in Calls :
    /\ c # d /\ cap[c] = cap[d] /\ request[c] # request[d]
    /\ pc[c] = "done" /\ outcome[c].kind = "response"
    /\ pc[d] \in {"transporting", "converting_back"}
    /\ d > c

\* C9: a dispatcher is read-only after construction: no step of a dispatch
\* changes the service, the dispatchers it holds (adapter binding, API key,
\* base URL, version), or the request the dispatch was given.
C9_DispatcherReadOnly ==
  [][/\ service' = service
     /\ \A c \in Calls :
          pc[c] # "idle" => /\ request'[c] = request[c]
                            /\ cap'[c] = cap[c]]_vars

\* A dispatch succeeded and another one failed after a transport error.
C9_Witness ==
  \E c, d \in Calls :
    /\ pc[c] = "done" /\ outcome[c].kind = "response"
    /\ pc[d] = "done" /\ outcome[d].kind = "error"
    /\ Has(trace[d], "convert_error")
    /\ RepoOfCall(c).api_key = "sk-key"

\* C16: every ChatRequest that reaches request conversion has at least one
\* message and every message of it has content parts; a request with an empty
\* message list is reported as a violation by validate and never reaches
\* request conversion or the transport.
C16_ConvertedRequestsHaveContent ==
  \A c \in Calls :
    cap[c] = "chat"
      => /\ (Has(trace[c], "convert_request") \/ provider_request[c] # NoBody
               \/ TransportCallsOf(c) # {})
              => /\ Len(request[c].messages) >= 1
                 /\ \A i \in DOMAIN request[c].messages :
                      request[c].messages[i].content # <<>>
         /\ request[c].messages = <<>>
              => /\ ~Has(trace[c], "convert_request")
                 /\ ~Has(trace[c], "make_request")
                 /\ TransportCallsOf(c) = {}
                 /\ (Has(trace[c], "validate") /\ pc[c] = "done"
                       /\ fault[c] = None)
                      => /\ Has(errors[c], "messages: empty list")
                         /\ outcome[c].kind = "error"

\* A chat request without messages and one with a message without content
\* parts were both stopped after validate, while a request with content
\* reached the transport.
C16_Witness ==
  \E c, d \in Calls :
    /\ cap[c] = "chat" /\ pc[c] = "done" /\ trace[c] = <<"validate">>
    /\ Has(errors[c], "messages: message without content")
    /\ cap[d] = "chat" /\ Has(trace[d], "make_request")
    /\ request[d].messages = <<UserMessage>>

\* The raw errors for which the adapter has a refinement of Provider.
Recognized == {"HTTP429", "HTTP401"}

\* C19: map-error is total and never swallows: whatever exception the handler
\* catches, the dispatch ends with the error map-error returned for it, which
\* keeps the raw error; an unrecognized raw error gives exactly ProviderError;
\* and a dispatch whose transport call failed never ends with a response.
C19_MapErrorTotalNeverSwallows ==
  \A c \in Calls :
    /\ (pc[c] = "done" /\ Has(trace[c], "convert_error"))
         => /\ outcome[c].kind = "error"
            /\ outcome[c].error.cls \in ProviderClass
            /\ outcome[c].error.raw_error = caught[c].cls
            /\ caught[c].cls \notin Recognized
                 => outcome[c].error.cls = "ProviderError"
    /\ reply[c].kind = "raise"
         => /\ outcome[c].kind # "response"
            /\ Has(trace[c], "convert_error")

\* A dispatch whose transport call raised an unrecognized error has ended
\* with the generic error, and one whose transport call raised a recognized
\* one with its refinement.
C19_Witness ==
  \E c, d \in Calls :
    /\ pc[c] = "done" /\ reply[c].kind = "raise" /\ reply[c].exc = "Timeout"
    /\ outcome[c].error.cls = "ProviderError"
    /\ outcome[c].error.raw_error = "Timeout"
    /\ pc[d] = "done" /\ reply[d].kind = "raise"
    /\ outcome[d].error.cls = "RateLimitError"

\* The dispatch c has ended, it was given a request validate accepts, its
\* dispatcher has a key, and no adapter operation raised of its own.
CommonPath(c) ==
  /\ pc[c] = "done"
  /\ RepoOfCall(c).api_key = "sk-key"
  /\ validate_request(cap[c], request[c]) = <<>>
  /\ fault[c] = None

\* The value key occurs in the url, in a header or in the body of a call.
KeyOutsideParams(call, key) ==
  \/ \E i \in DOMAIN call.url : call.url[i] = key
  \/ \E h \in DOMAIN call.headers :
       \E i \in DOMAIN call.headers[h] : call.headers[h][i] = key
  \/ \E f \in DOMAIN call.body : call.body[f] = key

\* C22: the Anthropic chat dispatcher sends its single transport call to the
\* path /v1/messages on the Anthropic base URL, with the API key in the
\* x-api-key header and the version header 2023-06-01 when no version is
\* configured.
C22_AnthropicMessagesEndpoint ==
  \A c \in Calls :
    (cap[c] = "chat" /\ RepoOfCall(c).cls = "AnthropicChatRepository")
      => /\ Len(transport_log[c]) <= 1
         /\ \A i \in TransportCallsOf(c) :
              /\ transport_log[c][i].url =
                   <<"https://api.anthropic.com", "/v1/messages">>
              /\ transport_log[c][i].headers["x-api-key"] =
                   <<RepoOfCall(c).api_key>>
              /\ transport_log[c][i].headers["anthropic-version"] =
                   <<"2023-06-01">>
         /\ CommonPath(c) => Len(transport_log[c]) = 1

\* C23: the Gemini chat dispatcher sends its transport call to
\* /{version}/models/{model}:generateContent with the model of the request and
\* the version of the dispatcher, and passes the API key only as the query
\* parameter key: never in the headers, the URL or the body.
C23_GeminiKeyOnlyInQuery ==
  \A c \in Calls :
    (cap[c] = "chat" /\ RepoOfCall(c).cls = "GeminiChatRepository")
      => /\ \A i \in TransportCallsOf(c) :
              /\ transport_log[c][i].url =
                   <<"https://generativelanguage.googleapis.com", "/",
                     RepoOfCall(c).version, "/models/", request[c].model,
                     ":generateContent">>
              /\ transport_log[c][i].params = ("key" :> RepoOfCall(c).api_key)
              /\ ~KeyOutsideParams(transport_log[c][i], RepoOfCall(c).api_key)
         /\ CommonPath(c) => Len(transport_log[c]) = 1

GuardedFailure(c) ==
  \/ /\ provider_request[c] # NoBody
     /\ TransportCall(RepoOfCall(c), cap[c], request[c],
                      provider_request[c]).exc # NoError
  \/ reply[c].kind = "raise"
  \/ /\ reply[c].kind = "response"
     /\ pc[c] \in {"mapping_error", "done"}
     /\ fault[c] = "convert_response" \/ ~reply[c].raw.well_formed

\* C25: the dispatcher invokes map-error exactly when a step inside the
\* guarded block fails (building the headers, the transport call, converting
\* the response), and at most once; an exception of validate or of
\* convert-request reaches the caller as it was raised, map-error is not
\* invoked for it and the transport has not been invoked.
C25_MapErrorOnlyInsideGuardedBlock ==
  \A c \in Calls :
    /\ Count(trace[c], "convert_error") <= 1
    /\ pc[c] \in {"mapping_error", "done"}
         => (Has(trace[c], "convert_error") <=> GuardedFailure(c))
    /\ Has(trace[c], "convert_error") <=> caught[c] # NoError
    /\ fault[c] \in {"validate", "convert_request"}
         => /\ pc[c] = "done"
            /\ outcome[c] = Raised(AdapterFault)
            /\ ~Has(trace[c], "convert_error")
            /\ ~Has(trace[c], "make_request")
            /\ TransportCallsOf(c) = {}

\* A dispatch ended with the exception convert-request raised, and another
\* one with the error map-error returned for a failure to build the headers.
C25_Witness ==
  \E c, d \in Calls :
    /\ pc[c] = "done" /\ fault[c] = "convert_request"
    /\ outcome[c] = Raised(AdapterFault)
    /\ pc[d] = "done" /\ caught[d] = BuiltinError("AttributeError")
    /\ trace[d] = <<"validate", "convert_request", "convert_error">>
    /\ outcome[d].error.cls = "ProviderError"

\* The service whose dispatchers run the dispatch code of repositories/base.py
\* and are otherwise those of svc (same adapter, same key).
BaseVariant(svc) ==
  [f \in DOMAIN svc |->
     IF svc[f] = NoRepo THEN NoRepo ELSE [svc[f] EXCEPT !.module = "base"]]

\* The outcomes a and b are the same, or they are the errors the two variants
\* raise for a non-empty validation result.
SameButValidationClass(a, b) ==
  \/ a = b
  \/ /\ a.kind = "error" /\ b.kind = "error"
     /\ a.error.cls = "ValidationError" /\ b.error.cls = "ValueError"

\* C26: the dispatchers of repositories/base_new.py and repositories/base.py
\* are equivalent on the common path: with an API key configured, a dispatch
\* through base_new.py invokes the adapter and the transport as the dispatch
\* of the same request through base.py does, for some answer of the
\* transport, and ends with the same response or error; only the class of
\* the error raised for a non-empty validation result differs.
C26_VariantsEquivalent ==
  \A c \in Calls :
    (pc[c] = "done" /\ RepoOfCall(c).module = "base_new"
       /\ RepoOfCall(c).api_key = "sk-key")
      => \E rep \in (IF reply[c] = NoReply THEN Replies ELSE {reply[c]}) :
           \E flt \in {None, "validate", "convert_request",
                         "convert_response"} :
             /\ trace[c] =
                  Invocations(BaseVariant(service), cap[c], request[c], flt, rep)
             /\ SameButValidationClass(
                  outcome[c],
                  Dispatch(BaseVariant(service), cap[c], request[c], flt, rep))

(***************************************************************************)
(* The stream reconstructor.  The repository declares the chunk type       *)
(* (ChatStreamResponse: id, delta, metadata, done) and the adapter         *)
(* operation that produces it (convert_chat_stream); the fold over the     *)
(* chunks is modelled from the specification.  A text is a sequence of     *)
(* characters.                                                             *)
(***************************************************************************)

\* The most chunks in one stream.
MaxChunks == 3

Alphabet == {"a", "b"}

\* The text fragments a chunk may carry.
Deltas == {<<x>> : x \in Alphabet} \cup {<<"a", "b">>}

\* The content parts of a response.
Indices == {1, 2}

\* A usage that reports the prompt tokens only, and a complete one.
PartialUsage == Usage("prompt_tokens" :> 3)

FullUsage ==
  Usage(("prompt_tokens" :> 3) @@ ("completion_tokens" :> 4)
          @@ ("total_tokens" :> 7))

\* The usage a chunk's metadata may report (Absent: it reports none).
Usages == {Absent, <<PartialUsage>>, <<FullUsage>>}

\* The delta of a chunk: a fragment of the text of a content part, or a
\* fragment of the arguments of a function call.
Fragments == {<<"text", d>> : d \in Deltas}

CallFragments == {<<"function_call", <<"a">>>>}

\* What one chunk carries: the index, the delta and the usage (a chunk with a
\* function-call delta reports none).
ChunkShapes ==
  (Indices \X Fragments \X Usages) \cup (Indices \X CallFragments \X {Absent})

\* The stream of one request as the adapter emits it: every chunk carries a
\* delta for one index; the last one is the terminal chunk (done = true).
ChunkSeq(s) ==
  [i \in 1..Len(s) |->
     [index |-> s[i][1], kind |-> s[i][2][1], delta |-> s[i][2][2],
      usage |-> s[i][3], done |-> (i = Len(s))]]

\* The stream the reconstructor receives: the stream as emitted, or, when
\* again holds, with its terminal chunk arriving a second time.
Received(e, again) ==
  IF again /\ e # <<>> THEN Append(e, e[Len(e)]) ELSE e

\* The position of the first terminal chunk of s (Len(s) when it has none).
FirstTerminal(s) ==
  IF \E i \in 1..Len(s) : s[i].done
  THEN CHOOSE i \in 1..Len(s) :
         s[i].done /\ \A j \in 1..(i - 1) : ~s[j].done
  ELSE Len(s)

\* The chunks of s up to its first terminal chunk.
Completed(s) == SubSeq(s, 1, FirstTerminal(s))

RECURSIVE Joined(_, _, _)
\* What the chunks of s carry for kind k and index i, joined in order.
Joined(s, k, i) ==
  IF s = <<>> THEN <<>>
  ELSE (IF Head(s).kind = k /\ Head(s).index = i THEN Head(s).delta ELSE <<>>)
         \o Joined(Tail(s), k, i)

EmptyAcc ==
  [content |-> [i \in Indices |-> <<>>],
   function_calls |-> [i \in Indices |-> <<>>],
   usage |-> Absent, done |-> FALSE, error |-> NoError]

\* The text and the pending function calls after a delta is merged.
Merged(a, ch) ==
  IF ch.kind = "text"
  THEN [content |-> [a.content EXCEPT ![ch.index] = @ \o ch.delta],
        function_calls |-> a.function_calls]
  ELSE [content |-> a.content,
        function_calls |->
          [a.function_calls EXCEPT ![ch.index] = @ \o ch.delta]]

\* A fold that merges every chunk it receives, the terminal one again too.
FoldChunk_MergesAgain(a, ch) ==
  [content |-> Merged(a, ch).content,
   function_calls |-> Merged(a, ch).function_calls,
   usage |-> IF ch.usage # Absent THEN ch.usage ELSE a.usage,
   done |-> ch.done,
   error |-> a.error]

\* A fold that takes the usage of every chunk, reported or not.
FoldChunk_UsageOfChunk(a, ch) ==
  IF a.done
  THEN [a EXCEPT !.error = LLMError("ProviderError", "adapter", None, None)]
  ELSE [content |-> Merged(a, ch).content,
        function_calls |-> Merged(a, ch).function_calls,
        usage |-> ch.usage,
        done |-> ch.done,
        error |-> a.error]

\* A fold that puts a delta in front of the text accumulated for its index.
FoldChunk_Prepend(a, ch) ==
  [content |-> [a.content EXCEPT ![ch.index] = ch.delta \o @],
   function_calls |-> a.function_calls,
   usage |-> IF ch.usage # Absent THEN ch.usage ELSE a.usage,
   done |-> ch.done,
   error |-> a.error]

\* One step of the fold: a text delta is appended to the text of its content
\* index, a function-call delta to the pending call of its index, usage is
\* taken from the chunk when it reports one, and a chunk that arrives after
\* the terminal chunk is a protocol violation, reported as a Provider-class
\* error and not merged.
FoldChunk(a, ch) ==
  IF a.done
  THEN [a EXCEPT !.error = LLMError("ProviderError", "adapter", None, None)]
  ELSE [content |-> Merged(a, ch).content,
        function_calls |-> Merged(a, ch).function_calls,
        usage |-> IF ch.usage # Absent THEN ch.usage ELSE a.usage,
        done |-> ch.done,
        error |-> a.error]

\* No dispatch runs; a stream is about to be reconstructed.
StreamInit ==
  /\ DispatchInit({LLMService(NoRepo, NoRepo, NoRepo)})
  /\ \E n \in 0..MaxChunks : \E s \in [1..n -> ChunkShapes] :
       \E again \in BOOLEAN : chunks = Received(ChunkSeq(s), again)
  /\ completion = [i \in Indices |-> Joined(Completed(chunks), "text", i)]
  /\ consumed = 0
  /\ acc = EmptyAcc
  /\ NothingBuilt
  /\ Decorated({DefaultFlags})
  /\ NothingMasked

\* The next chunk of the stream arrives and is folded.
ReceiveChunk ==
  /\ consumed < Len(chunks)
  /\ acc' = FoldChunk(acc, chunks[consumed + 1])
  /\ consumed' = consumed + 1
  /\ UNCHANGED <<chunks, completion, dispatch_vars, model_vars, log_vars,
                 mask_vars>>

StreamNext == ReceiveChunk

SpecStream == StreamInit /\ [][StreamNext]_vars

\* C10: folding the ordered chunks of one request concatenates the text deltas
\* in arrival order per content index: once every chunk is folded, the text of
\* each content part equals the text of the non-streaming response, for every
\* way of splitting that text into chunks.
C10_StreamTextEqualsCompletion ==
  consumed = Len(chunks)
    => /\ \A i \in Indices : acc.content[i] = completion[i]
       /\ FirstTerminal(chunks) = Len(chunks) => acc.error = NoError

\* A stream of three chunks is folded whose deltas interleave two content
\* indices, one of them split into two different fragments.
C10_Witness ==
  /\ consumed = Len(chunks) /\ Len(chunks) = 3
  /\ chunks[1].index = 1 /\ chunks[2].index = 2 /\ chunks[3].index = 1
  /\ \A i \in 1..3 : chunks[i].kind = "text"
  /\ chunks[1].delta = <<"a", "b">> /\ chunks[3].delta = <<"b">>
  /\ acc.content[1] = <<"a", "b", "b">>
  /\ acc.done

\* C11: a terminal chunk received again after a chunk with done = true was
\* folded is reported as a Provider-class error, and the fold leaves the
\* accumulated content, function calls and usage exactly as they were after
\* the first terminal chunk: the repeated chunk is never merged.
C11_RepeatedTerminalRejected ==
  /\ [](consumed > FirstTerminal(chunks)
          => /\ acc.error.cls \in ProviderClass
             /\ \A i \in Indices :
                  /\ acc.content[i] = Joined(Completed(chunks), "text", i)
                  /\ acc.function_calls[i] =
                       Joined(Completed(chunks), "function_call", i))
  /\ [][acc.done
          => /\ acc'.content = acc.content
             /\ acc'.function_calls = acc.function_calls
             /\ acc'.usage = acc.usage
             /\ acc'.done
             /\ acc'.error.cls \in ProviderClass]_vars

\* A stream of text, a function-call fragment and a usage was folded, and then
\* its terminal chunk, which carries a text delta, was received again.
C11_Witness ==
  /\ Len(chunks) = 4 /\ consumed = 4 /\ FirstTerminal(chunks) = 3
  /\ chunks[4] = chunks[3] /\ chunks[3].kind = "text"
  /\ chunks[2].kind = "function_call"
  /\ acc.function_calls[chunks[2].index] # <<>>
  /\ chunks[3].usage = <<FullUsage>>
  /\ acc.error.cls = "ProviderError"
  /\ acc.content[chunks[3].index] # <<>>
  /\ acc.usage = <<FullUsage>>

RECURSIVE LastUsage(_)
\* The usage of the last chunk of s that reports one (Absent: none does).
LastUsage(s) ==
  IF s = <<>> THEN Absent
  ELSE IF s[Len(s)].usage # Absent THEN s[Len(s)].usage
  ELSE LastUsage(SubSeq(s, 1, Len(s) - 1))

\* C12: the usage of the reconstructed response is the usage of the last chunk
\* that reports one: a chunk that reports none never overwrites or clears a
\* usage reported earlier, and a later reported usage replaces an earlier one.
C12_UsageOfLastReportingChunk ==
  acc.usage = LastUsage(SubSeq(chunks, 1, consumed))

\* A partial usage was reported first and a complete one by the terminal
\* chunk, with a chunk that reports none in between; in another stream the
\* partial usage is followed only by chunks that report none.
C12_Witness ==
  /\ consumed = 3 /\ Len(chunks) = 3
  /\ chunks[1].usage = <<PartialUsage>>
  /\ chunks[2].usage = Absent
  /\ chunks[3].usage = <<FullUsage>>
  /\ acc.usage = <<FullUsage>>

(***************************************************************************)
(* Construction of universal-model values and of taxonomy errors.          *)
(***************************************************************************)

\* The present and the absent choice for an optional text argument.
TextChoices == {Absent, <<"x">>}

\* The constructor call cls(**args) is made.
Construct(cls, args) ==
  /\ NothingBuilt
  /\ built' = [cls |-> cls, args |-> args, exc |-> BaseModel(cls, args).exc,
               value |-> BaseModel(cls, args).value, handler |-> None,
               caught |-> FALSE]

ConstructMediaSource ==
  \E t \in {<<"image">>, <<"hologram">>} : \E m, d, u, p \in TextChoices :
    Construct("MediaSource",
              Arg("type", t) @@ Arg("mime_type", m) @@ Arg("data", d)
                @@ Arg("url", u) @@ Arg("path", p))

ConstructMessage ==
  \E r \in {<<x>> : x \in Roles} \cup {Absent, <<"tool">>} :
    \E c \in {<<<<>>>>, <<<<TextPart>>>>} :
      \E fc \in {Absent, <<PendingCall>>, <<AnsweredCall>>} :
        Construct("Message",
                  Arg("role", r) @@ Arg("content", c) @@ Arg("function_call", fc))

ConstructGenerationConfig ==
  \E fs \in {Absent, <<<<>>>>, <<<<DeclaredFunction("f")>>>>,
              <<<<DeclaredFunction("g")>>>>,
              <<<<DeclaredFunction("g"), DeclaredFunction("f")>>>>} :
    \E ff \in {Absent, <<"f">>} : \E extra \in TextChoices :
      Construct("GenerationConfig",
                Arg("functions", fs) @@ Arg("force_function", ff)
                  @@ Arg("max_token", extra))

ConstructUsage ==
  \E given \in [UsageFields -> {Absent, <<0>>, <<5>>}] :
    \E D \in {{f \in UsageFields : given[f] # Absent}} :
      Construct("Usage", [f \in D |-> given[f][1]])

\* An error of the taxonomy is constructed and raised under a handler
\* "except handler:".
RaiseError ==
  \E cls \in Taxonomy : \E handler \in Taxonomy :
    \E p \in {Absent, <<"openai">>} : \E c \in {Absent, <<"429">>} :
      \E raw \in {Absent, <<"HTTP429">>} :
        LET args == Arg("provider", p) @@ Arg("code", c) @@ Arg("raw_error", raw)
            new == NewError(cls, args)
        IN /\ NothingBuilt
           /\ built' = [cls |-> cls, args |-> args, exc |-> new.exc,
                        value |-> new.value, handler |-> handler,
                        caught |-> /\ new.exc = NoError
                                   /\ issubclass(cls, handler)]

\* The caller drops the object or the error it holds.
Discard ==
  /\ ~NothingBuilt
  /\ built' = [cls |-> None, args |-> <<>>, exc |-> NoError, value |-> NoObject,
               handler |-> None, caught |-> FALSE]

ModelInit ==
  /\ DispatchInit({LLMService(NoRepo, NoRepo, NoRepo)})
  /\ StreamIdle
  /\ NothingBuilt
  /\ Decorated({DefaultFlags})
  /\ NothingMasked

ModelNext ==
  /\ UNCHANGED <<dispatch_vars, stream_vars, log_vars, mask_vars>>
  /\ \/ ConstructMediaSource
     \/ ConstructMessage
     \/ ConstructGenerationConfig
     \/ ConstructUsage
     \/ RaiseError
     \/ Discard

SpecModel == ModelInit /\ [][ModelNext]_vars

\* An object of class cls was built.
Built(cls) == built.cls = cls /\ built.exc = NoError

\* The location fields of a MediaSource that are set.
LocationsSet(m) == {f \in {"data", "url", "path"} : m[f] # Absent}

\* C13: every MediaSource that can be constructed has exactly one of data,
\* url and path set; one with none, two or three set is rejected.
C13_ExactlyOneLocation ==
  Built("MediaSource") => Cardinality(LocationsSet(built.value)) = 1

\* C14: a Message of role function carries a FunctionCall with a response,
\* and a FunctionCall carried by a Message of role assistant has none.
C14_FunctionResponsePairing ==
  Built("Message")
    => /\ built.value.role = "function"
            => /\ built.value.function_call # Absent
               /\ built.value.function_call[1].response # Absent
       /\ (built.value.role = "assistant" /\ built.value.function_call # Absent)
            => built.value.function_call[1].response = Absent

\* C15: a GenerationConfig whose force_function is set has functions set, with
\* a Function of that name among them.
C15_ForcedFunctionDeclared ==
  (Built("GenerationConfig") /\ built.value.force_function # Absent)
    => /\ built.value.functions # Absent
       /\ \E i \in DOMAIN built.value.functions[1] :
            built.value.functions[1][i].name = built.value.force_function[1]

\* C17: a counter of Usage that was not passed is absent and never 0: a field
\* not given is Absent, a field given holds the value given and no other
\* field changes with it, and a reported 0 differs from absent.
C17_UnreportedIsAbsent ==
  Built("Usage")
    => \A f \in UsageFields :
         /\ f \notin DOMAIN built.args => built.value[f] = Absent
         /\ f \in DOMAIN built.args => built.value[f] = <<built.args[f]>>
         /\ built.value[f] = <<0>> => (f \in DOMAIN built.args /\ built.args[f] = 0)
         /\ <<0>> # Absent

\* A Usage was built with a reported 0 for one counter, 5 for another and the
\* others not passed.
C17_Witness ==
  /\ Built("Usage")
  /\ DOMAIN built.args = {"prompt_tokens", "total_tokens"}
  /\ built.args["prompt_tokens"] = 0 /\ built.args["total_tokens"] = 5
  /\ built.value["prompt_tokens"] = <<0>>
  /\ built.value["completion_tokens"] = Absent

\* The refinements of Provider.
Refinements == ProviderClass \ {"ProviderError"}

\* C18: RateLimit, Authentication, QuotaExceeded, InvalidRequest and
\* ContextLengthExceeded are refinements of Provider: a handler of
\* ProviderError catches each of them, a handler of ValidationError,
\* ConfigurationError or UnsupportedOperationError catches none of them nor a
\* ProviderError; and every error of the taxonomy carries a provider (it
\* cannot be built without one) plus an optional code and an optional original
\* error, None when not passed.
C18_TaxonomyRefinesProvider ==
  built.cls \in Taxonomy
    => /\ "provider" \notin DOMAIN built.args <=> built.exc # NoError
       /\ built.exc = NoError
            => /\ built.value.cls = built.cls
               /\ built.value.provider = built.args["provider"]
               /\ built.value.code =
                    (IF "code" \in DOMAIN built.args
                     THEN built.args["code"] ELSE None)
               /\ built.value.raw_error =
                    (IF "raw_error" \in DOMAIN built.args
                     THEN built.args["raw_error"] ELSE None)
               /\ built.cls \in ProviderClass
                    => /\ built.handler \in {"ProviderError", "LLMError"}
                            => built.caught
                       /\ built.handler \in {"ValidationError",
                                              "ConfigurationError",
                                              "UnsupportedOperationError"}
                            => ~built.caught
               /\ (built.caught /\ built.handler \in ProviderClass)
                    => built.cls \in ProviderClass

\* A RateLimitError with a code and an original error was caught by a
\* handler of ProviderError.
C18_Witness ==
  /\ built.cls = "RateLimitError" /\ built.exc = NoError
  /\ built.handler = "ProviderError" /\ built.caught
  /\ built.value.provider = "openai" /\ built.value.code = "429"
  /\ built.value.raw_error = "HTTP429"

(***************************************************************************)
(* The logging decorator (utils/logging.py).  log_operation(provider,      *)
(* operation, log_request, log_response, mask_sensitive) returns a         *)
(* decorator whose wrapper logs around the call of the decorated           *)
(* operation.  Inside the wrapper the names log_request and log_response   *)
(* are the parameters of log_operation, which are booleans, and not the    *)
(* module's functions of those names: calling one raises TypeError.        *)
(***************************************************************************)

\* log_request(...) / log_response(...) inside wrapper: the call of a bool.
CallFlag(flag) == BuiltinError("TypeError")

\* bool(x) of a request or a response: an object is true, None is not.
ObjectTruthy(x) == x # NoRequest /\ x # NoResponse

\* RequestLogger.__exit__: the message logged; the exception, if any, is not
\* suppressed.
ExitRecord(exc_val) ==
  IF exc_val # NoError THEN "Request failed" ELSE "Request completed"

\* The wrapper is called.  It logs the request when log_request is set and
\* the request was passed by keyword; then it enters RequestLogger and
\* awaits the decorated operation.
WrapperCalled ==
  /\ log_pc = "idle"
  /\ \E cp \in Capabilities : \E req \in RequestsOf(cp) : \E kw \in BOOLEAN :
       \E svc \in Deployments : \E flt \in {None, "convert_response"} :
         \E rep \in Replies :
           LET kwargs_request == IF kw THEN req ELSE NoRequest IN
           /\ RepoOf(svc, cp) # NoRepo
           /\ log_call' = [cap |-> cp, request |-> req, by_keyword |-> kw]
           /\ log_inner' = Dispatch(svc, cp, req, flt, rep)
           /\ IF /\ log_flags.log_request
                 /\ ObjectTruthy(kwargs_request)
                 /\ CallFlag("log_request") # NoError
              THEN /\ log_outcome' = Raised(CallFlag("log_request"))
                   /\ log_pc' = "done"
              ELSE /\ log_pc' = "awaiting"
                   /\ UNCHANGED log_outcome
  /\ UNCHANGED <<log_flags, log_records>>

\* The decorated operation returns or raises.  A response is logged when
\* log_response is set; RequestLogger.__exit__ logs the end of the request.
OperationCompleted ==
  /\ log_pc = "awaiting"
  /\ LET raised ==
           IF log_inner.kind = "error" THEN log_inner.error
           ELSE IF log_flags.log_response /\ ObjectTruthy(log_inner.response)
           THEN CallFlag("log_response")
           ELSE NoError
     IN
     /\ log_records' = Append(log_records, ExitRecord(raised))
     /\ log_outcome' =
          IF raised # NoError THEN Raised(raised) ELSE log_inner
  /\ log_pc' = "done"
  /\ UNCHANGED <<log_flags, log_call, log_inner>>

LogInit ==
  /\ DispatchInit({LLMService(NoRepo, NoRepo, NoRepo)})
  /\ StreamIdle
  /\ NothingBuilt
  /\ Decorated([log_request : BOOLEAN, log_response : BOOLEAN,
                mask_sensitive : BOOLEAN])
  /\ NothingMasked

LogNext ==
  /\ UNCHANGED <<dispatch_vars, stream_vars, model_vars, mask_vars>>
  /\ \/ WrapperCalled
     \/ OperationCompleted

SpecLog == LogInit /\ [][LogNext]_vars

\* C20: the logging wrapper is transparent: the wrapped operation returns the
\* value the operation returns and raises the error the operation raises, for
\* every request and every setting of log_request, log_response and
\* mask_sensitive.
C20_LoggingTransparent ==
  log_pc = "done" => log_outcome = log_inner

\* C21: logging always runs: every call of a wrapped operation emits exactly
\* one completion record when it exits, "Request completed" if the call
\* returned and "Request failed" if it raised, and a call whose operation
\* raised still raises that error.
C21_ExactlyOneCompletionRecord ==
  log_pc = "done" =>
    /\ Len(log_records) = 1
    /\ log_records[1] = (IF log_outcome.kind = "error"
                           THEN "Request failed" ELSE "Request completed")
    /\ (log_records # <<>> /\ log_inner.kind = "error")
         => log_outcome = log_inner

(***************************************************************************)
(* mask_sensitive_data (utils/logging.py).  A string is the sequence of    *)
(* its characters, so that lower() acts on it.  A dictionary is a function *)
(* from keys to values; a value is a string, a dictionary or a list of     *)
(* dictionaries, held in a record that says which.                         *)
(***************************************************************************)

\* The most entries, nested ones included, of a dictionary passed.
MaxEntries == 4

UpperCase ==
  <<"A", "B", "C", "D", "E", "F", "G", "H", "I", "J", "K", "L", "M",
    "N", "O", "P", "Q", "R", "S", "T", "U", "V", "W", "X", "Y", "Z">>

LowerCase ==
  <<"a", "b", "c", "d", "e", "f", "g", "h", "i", "j", "k", "l", "m",
    "n", "o", "p", "q", "r", "s", "t", "u", "v", "w", "x", "y", "z">>

\* str.lower(): every upper-case letter is replaced by its lower-case one.
lower(k) ==
  [i \in 1..Len(k) |->
     IF \E j \in 1..26 : UpperCase[j] = k[i]
     THEN LowerCase[CHOOSE j \in 1..26 : UpperCase[j] = k[i]]
     ELSE k[i]]

\* SENSITIVE_FIELDS = {'api_key', 'key', 'token', 'password', 'secret'}
SENSITIVE_FIELDS ==
  {<<"a", "p", "i", "_", "k", "e", "y">>,
   <<"k", "e", "y">>,
   <<"t", "o", "k", "e", "n">>,
   <<"p", "a", "s", "s", "w", "o", "r", "d">>,
   <<"s", "e", "c", "r", "e", "t">>}

StrValue(chars) == [t |-> "str", s |-> <<chars>>, d |-> <<>>, l |-> <<>>]

DictValue(dict) == [t |-> "dict", s |-> <<>>, d |-> <<dict>>, l |-> <<>>]

ListValue(items) == [t |-> "list", s |-> <<>>, d |-> <<>>, l |-> items]

\* A test of the key as it is spelled.
Sensitive_AsSpelled(k) == k \in SENSITIVE_FIELDS

\* k.lower() in SENSITIVE_FIELDS
Sensitive(k) == lower(k) \in SENSITIVE_FIELDS

\* _mask_dict: a new dictionary with the keys of d.
RECURSIVE mask_dict(_)
mask_dict(d) ==
  [k \in DOMAIN d |->
     IF Sensitive(k) THEN StrValue(<<"*", "*", "*">>)
     ELSE IF d[k].t = "dict" THEN DictValue(mask_dict(d[k].d[1]))
     ELSE d[k]]

mask_sensitive_data(data) == mask_dict(data)

\* The keys and the values the caller uses.
MaskKeys ==
  {<<"k", "e", "y">>,
   <<"A", "P", "I", "_", "K", "e", "y">>,
   <<"k", "e", "y", "s">>,
   <<"m", "o", "d", "e", "l">>}

MaskValues ==
  {StrValue(<<"v">>),
   ListValue(<<(<<"k", "e", "y">> :> StrValue(<<"v">>))>>),
   DictValue(<<"T", "O", "K", "E", "N">> :> StrValue(<<"v">>))}

\* The number of entries of a dictionary, those of nested dictionaries
\* included.
RECURSIVE Entries(_)
Entries(d) ==
  IF DOMAIN d = {} THEN 0
  ELSE LET k == CHOOSE j \in DOMAIN d : TRUE IN
       1 + (IF d[k].t = "dict" THEN Entries(d[k].d[1]) ELSE 0)
         + Entries([j \in DOMAIN d \ {k} |-> d[j]])

\* The caller adds an entry to the dictionary it is building.
PutEntry ==
  /\ mask_pc = "idle"
  /\ \E k \in MaskKeys \ DOMAIN mask_data : \E v \in MaskValues :
       /\ Entries(mask_data @@ (k :> v)) <= MaxEntries
       /\ mask_data' = mask_data @@ (k :> v)
  /\ UNCHANGED <<mask_out, mask_twice, mask_pc>>

\* The caller puts the dictionary it is building into a new one.
NestUnder ==
  /\ mask_pc = "idle"
  /\ \E k \in MaskKeys :
       /\ Entries(k :> DictValue(mask_data)) <= MaxEntries
       /\ mask_data' = (k :> DictValue(mask_data))
  /\ UNCHANGED <<mask_out, mask_twice, mask_pc>>

\* mask_sensitive_data(data): the dictionary is read, never assigned to.
MaskCalled ==
  /\ mask_pc = "idle"
  /\ mask_out' = mask_sensitive_data(mask_data)
  /\ mask_pc' = "masked"
  /\ UNCHANGED <<mask_data, mask_twice>>

\* mask_sensitive_data is called with the dictionary it returned.
MaskCalledAgain ==
  /\ mask_pc = "masked"
  /\ mask_twice' = mask_sensitive_data(mask_out)
  /\ mask_pc' = "done"
  /\ UNCHANGED <<mask_data, mask_out>>

MaskInit ==
  /\ DispatchInit({LLMService(NoRepo, NoRepo, NoRepo)})
  /\ StreamIdle
  /\ NothingBuilt
  /\ Decorated({DefaultFlags})
  /\ NothingMasked

MaskNext ==
  /\ UNCHANGED <<dispatch_vars, stream_vars, model_vars, log_vars>>
  /\ \/ PutEntry
     \/ NestUnder
     \/ MaskCalled
     \/ MaskCalledAgain

SpecMask == MaskInit /\ [][MaskNext]_vars

\* The keys of the caller whose lower-cased name is one of api_key, key,
\* token, password, secret.
SensitiveSpellings ==
  {<<"k", "e", "y">>, <<"A", "P", "I", "_", "K", "e", "y">>,
   <<"T", "O", "K", "E", "N">>}

\* out is the dictionary given with the value of every sensitive key
\* replaced by '***', at every depth of dictionaries nested directly, and
\* everything else as it was.
RECURSIVE MaskedAsClaimed(_, _)
MaskedAsClaimed(given, out) ==
  /\ DOMAIN out = DOMAIN given
  /\ \A k \in DOMAIN given :
       IF k \in SensitiveSpellings THEN out[k] = StrValue(<<"*", "*", "*">>)
       ELSE IF given[k].t = "dict"
       THEN /\ out[k].t = "dict" /\ out[k].s = <<>> /\ out[k].l = <<>>
            /\ Len(out[k].d) = 1
            /\ MaskedAsClaimed(given[k].d[1], out[k].d[1])
       ELSE out[k] = given[k]

\* C27: mask_sensitive_data replaces with '***' the value of every key whose
\* lower-cased name is one of api_key, key, token, password, secret, at every
\* depth of directly nested dictionaries, leaves every other key and value
\* unchanged, does not modify its input, and masking a masked dictionary
\* changes nothing.
C27_MaskSensitiveData ==
  /\ [](/\ mask_pc \in {"masked", "done"}
             => MaskedAsClaimed(mask_data, mask_out)
        /\ mask_pc = "done" => mask_twice = mask_out)
  /\ [][mask_pc' \in {"masked", "done"} => mask_data' = mask_data]_vars

\* A dictionary was masked twice that holds, two dictionaries deep, a
\* sensitive key spelled in upper case, and beside it a key that is not
\* sensitive.
C27_Witness ==
  /\ mask_pc = "done"
  /\ mask_out # mask_data
  /\ \E k \in DOMAIN mask_data :
       /\ ~Sensitive(k)
       /\ mask_data[k].t = "dict"
       /\ \E i, j \in DOMAIN mask_data[k].d[1] :
            /\ mask_data[k].d[1][j].t = "dict"
            /\ <<"T", "O", "K", "E", "N">> \in DOMAIN mask_data[k].d[1][j].d[1]
            /\ i = <<"k", "e", "y", "s">> /\ i # j
            /\ mask_data[k].d[1][i].t = "list"
            /\ mask_twice[k].d[1][i] = mask_data[k].d[1][i]

====
